---- MODULE Spec2Model ----
(***************************************************************************)
(* COBS encoder (stuff) and decoder (unstuff) of cobs-rs, src/lib.rs.      *)
(* Buffers are functions over 0..N-1, as the arrays [u8; N] of the source. *)
(* stuff and unstuff run one loop iteration per step; a behaviour is one   *)
(* input pushed through stuff, then unstuff, then stuff again (the shape   *)
(* of the crate's tests), or a received buffer pushed through unstuff.     *)
(***************************************************************************)
EXTENDS Integers, Sequences, FiniteSets, TLC

VARIABLES pc,        \* where the run is: "stuff", "encoded", "unstuff", "decoded", "restuff", "restuffed", "panicked"
          origin,    \* "stuff": the decoder input comes from stuff; "raw": it was received as is
          marker,    \* the marker byte of the run
          buff,      \* stuff's input buffer [u8; INPUT]
          st,        \* the locals of the running stuff call
          encoded,   \* unstuff's input buffer: what stuff returned, or the received bytes
          un,        \* the locals of the running unstuff call
          re         \* the result of stuff applied to unstuff's output buffer

vars == <<pc, origin, marker, buff, st, encoded, un, re>>

(* ------------------------------ bounds -------------------------------- *)

\* Buffers of up to this length are drawn with every content.
MaxShort == 2
\* Received (not stuff-produced) decoder inputs of up to this length.
MaxRaw == 3
\* Extra capacity of stuff's output buffer beyond INPUT + 2 + INPUT / 254.
MaxSlack == 1

(* ------------------------- program constants -------------------------- *)

\* 0xff: the largest distance a distance byte holds, u8::MAX.
MAXDIST == 255

\* u8 arithmetic wraps at 2^8 where overflow checks are off.
U8Mod == MAXDIST + 1

(* --------------------------- input families --------------------------- *)

ByteVals == {0, 1, MAXDIST}
Markers == {0, 1, MAXDIST}

Max(a, b) == IF a >= b THEN a ELSE b

\* All sequences over S of length at most n.
RECURSIVE SeqsUpTo(_, _)
SeqsUpTo(S, n) ==
    IF n = 0 THEN {<< >>}
    ELSE LET shorter == SeqsUpTo(S, n - 1)
         IN shorter \cup {Append(s, x) : s \in {t \in shorter : Len(t) = n - 1}, x \in S}

Rep(n, v) == [k \in 1..n |-> v]

\* The array [u8; N] holding the bytes of sequence s.
ToBuf(s) == [k \in 0..(Len(s) - 1) |-> s[k + 1]]

Size(b) == Cardinality(DOMAIN b)

\* Run lengths around the forced break: 253, 254, 255 marker-free bytes.
LongLens == {MAXDIST - 2, MAXDIST - 1, MAXDIST}

\* Long inputs: an optional leading marker, a long marker-free run, and an
\* optional trailing byte.
LongInputs(m) ==
    {pre \o Rep(n, v) \o suf :
        pre \in {<< >>, <<m>>}, n \in LongLens, v \in ByteVals \ {m},
        suf \in SeqsUpTo(ByteVals, 1)}

\* Run lengths around the second forced break: 508 and 509 marker-free bytes.
TwoBreakLens == {2 * (MAXDIST - 1), 2 * (MAXDIST - 1) + 1}

\* A byte that is not the marker m.
RunByte(m) == IF m = MAXDIST THEN 1 ELSE MAXDIST

\* Inputs with room for two forced breaks: a marker-free run, optionally
\* followed by the marker.
TwoBreakInputs(m) ==
    {Rep(n, RunByte(m)) \o suf : n \in TwoBreakLens, suf \in {<< >>, <<m>>}}

Inputs(m) == SeqsUpTo(ByteVals, MaxShort) \cup LongInputs(m) \cup TwoBreakInputs(m)

\* The output size a frame can need: INPUT + 2 + floor(INPUT / 254), a distance
\* byte for every 254 marker-free bytes (MAXDIST - 1 bytes follow a 0xff).
SizeRule(n) == n + 2 + (n \div (MAXDIST - 1))
\* The size rule of the crate documentation: INPUT + 2 + INPUT / 256.
DocRule(n) == n + 2 + (n \div U8Mod)

\* Output sizes stuff is instantiated with: one too small to hold a frame,
\* the documented one, and the size rule with 0..MaxSlack spare bytes.
EncSizes(n) == {n + 1, DocRule(n)} \cup {SizeRule(n) + s : s \in 0..MaxSlack}

(* ------------------------------- stuff -------------------------------- *)

NoPanic == "none"

\* let mut output_buffer = [marker; OUTPUT]; last_marker; overhead_bytes = 1
\* hi and dists record the highest index written and the distances computed.
StuffInit(OUTPUT, m) ==
    [output_buffer |-> [k \in 0..(OUTPUT - 1) |-> m],
     last_marker |-> [index |-> 0, points_to |-> MAXDIST],
     overhead_bytes |-> 1,
     i |-> 0,
     hi |-> -1,
     dists |-> {},
     panic |-> NoPanic]

\* MarkerInfo::adjust_accordingly with points_to one too far.
adjust_far(s, new_index) ==
    LET d == new_index - s.last_marker.index
        at == s.last_marker.index
    IN  IF d < 0 \/ d > MAXDIST
        THEN [s EXCEPT !.dists = @ \cup {d}, !.panic = "unwrap"]
        ELSE IF at \notin DOMAIN s.output_buffer
        THEN [s EXCEPT !.dists = @ \cup {d}, !.hi = Max(@, at), !.panic = "index"]
        ELSE [s EXCEPT !.output_buffer[at] = d,
                       !.dists = @ \cup {d},
                       !.hi = Max(@, at),
                       !.last_marker = [index |-> new_index,
                                        points_to |-> new_index + MAXDIST + 1]]

\* MarkerInfo::adjust_accordingly: the distance is computed and converted to u8
\* first (unwrap fails above 255), then stored at self.index (bounds-checked).
adjust_accordingly(s, new_index) ==
    LET d == new_index - s.last_marker.index
        at == s.last_marker.index
    IN  IF d < 0 \/ d > MAXDIST
        THEN [s EXCEPT !.dists = @ \cup {d}, !.panic = "unwrap"]
        ELSE IF at \notin DOMAIN s.output_buffer
        THEN [s EXCEPT !.dists = @ \cup {d}, !.hi = Max(@, at), !.panic = "index"]
        ELSE [s EXCEPT !.output_buffer[at] = d,
                       !.dists = @ \cup {d},
                       !.hi = Max(@, at),
                       !.last_marker = [index |-> new_index,
                                        points_to |-> new_index + MAXDIST]]

\* The forced break left out.
forced_break_never(s) == s

\* The forced break counted twice.
forced_break_twice(s) ==
    IF s.last_marker.points_to = s.overhead_bytes + s.i
    THEN LET a == adjust_accordingly(s, s.overhead_bytes + s.i)
         IN  IF a.panic # NoPanic THEN a
             ELSE [a EXCEPT !.overhead_bytes = @ + 2]
    ELSE s

\* The forced break one position late.
forced_break_late(s) ==
    IF s.last_marker.points_to + 1 = s.overhead_bytes + s.i
    THEN LET a == adjust_accordingly(s, s.overhead_bytes + s.i)
         IN  IF a.panic # NoPanic THEN a
             ELSE [a EXCEPT !.overhead_bytes = @ + 1]
    ELSE s

\* if last_marker.points_to == (overhead_bytes + i) { adjust; overhead_bytes += 1 }
forced_break(s) ==
    IF s.last_marker.points_to = s.overhead_bytes + s.i
    THEN LET a == adjust_accordingly(s, s.overhead_bytes + s.i)
         IN  IF a.panic # NoPanic THEN a
             ELSE [a EXCEPT !.overhead_bytes = @ + 1]
    ELSE s

\* One iteration of `for i in 0..INPUT`.
StuffIter(s, b, m) ==
    LET value == b[s.i]
        s1 == forced_break(s)
        pos == s1.overhead_bytes + s1.i
    IN  IF s1.panic # NoPanic THEN s1
        ELSE IF value = m
        THEN LET a == adjust_accordingly(s1, pos)
             IN  IF a.panic # NoPanic THEN a ELSE [a EXCEPT !.i = @ + 1]
        ELSE IF pos \notin DOMAIN s1.output_buffer
        THEN [s1 EXCEPT !.hi = Max(@, pos), !.panic = "index"]
        ELSE [s1 EXCEPT !.output_buffer[pos] = value,
                        !.hi = Max(@, pos),
                        !.i = @ + 1]

\* After the loop: output_buffer[last_marker.index] =
\*   (INPUT + overhead_bytes - last_marker.index).try_into().unwrap()
StuffFinal(s, b) ==
    LET d == Size(b) + s.overhead_bytes - s.last_marker.index
        at == s.last_marker.index
    IN  IF d < 0 \/ d > MAXDIST
        THEN [s EXCEPT !.dists = @ \cup {d}, !.panic = "unwrap"]
        ELSE IF at \notin DOMAIN s.output_buffer
        THEN [s EXCEPT !.dists = @ \cup {d}, !.hi = Max(@, at), !.panic = "index"]
        ELSE [s EXCEPT !.output_buffer[at] = d,
                       !.dists = @ \cup {d},
                       !.hi = Max(@, at)]

(* ------------------------------ unstuff ------------------------------- *)

UnIdle ==
    [output_buffer |-> << >>,
     until_next_marker |-> 0,
     next_is_overhead_byte |-> FALSE,
     overhead_bytes |-> 0,
     i |-> 0,
     hi |-> -1,
     length |-> -1,
     panic |-> NoPanic]

\* What `x - 1` on a u8 can do: with overflow checks (debug builds) 0 - 1
\* panics, without them (release builds) it wraps to 255.
U8Dec(x) == IF x > 0 THEN {[val |-> x - 1, panic |-> NoPanic]}
            ELSE {[val |-> U8Mod - 1, panic |-> NoPanic],
                  [val |-> 0, panic |-> "overflow"]}

\* The prologue of unstuff: the locals before the loop, reading buff[0].
UnstuffInit(b, OUTPUT, dec) ==
    IF 0 \notin DOMAIN b
    THEN [UnIdle EXCEPT !.output_buffer = [k \in 0..(OUTPUT - 1) |-> 0],
                        !.panic = "index"]
    ELSE [output_buffer |-> [k \in 0..(OUTPUT - 1) |-> 0],
          until_next_marker |-> dec.val,
          next_is_overhead_byte |-> (b[0] = MAXDIST),
          overhead_bytes |-> 1,
          i |-> 1,
          hi |-> -1,
          length |-> -1,
          panic |-> dec.panic]

\* The decoder writing at i, forgetting the overhead bytes passed.
UnWriteAt_raw(u) == u.i

\* The output index of input index i: i - overhead_bytes.
UnWriteAt(u) == u.i - u.overhead_bytes

\* The loop's epilogue: i += 1 while i < INPUT, else the no-marker panic.
UnAdvance(u, b) ==
    IF u.i < Size(b) THEN [u EXCEPT !.i = @ + 1]
    ELSE [u EXCEPT !.panic = "No marker value found!"]

\* One iteration of the loop that does not break; dec is the outcome of
\* `until_next_marker -= 1`.
UnstuffIter(u, b, m, dec) ==
    LET value == b[u.i]
        at == UnWriteAt(u)
    IN  IF u.until_next_marker = 0
        THEN IF u.next_is_overhead_byte
             THEN IF dec.panic # NoPanic THEN [u EXCEPT !.panic = dec.panic]
                  ELSE UnAdvance([u EXCEPT !.overhead_bytes = @ + 1,
                                           !.next_is_overhead_byte = (value = MAXDIST),
                                           !.until_next_marker = dec.val], b)
             ELSE IF at \notin DOMAIN u.output_buffer
                  THEN [u EXCEPT !.hi = Max(@, at), !.panic = "index"]
                  ELSE IF dec.panic # NoPanic
                  THEN [u EXCEPT !.output_buffer[at] = m, !.hi = Max(@, at),
                                 !.panic = dec.panic]
                  ELSE UnAdvance([u EXCEPT !.output_buffer[at] = m,
                                           !.hi = Max(@, at),
                                           !.next_is_overhead_byte = (value = MAXDIST),
                                           !.until_next_marker = dec.val], b)
        ELSE IF at \notin DOMAIN u.output_buffer
             THEN [u EXCEPT !.hi = Max(@, at), !.panic = "index"]
             ELSE UnAdvance([u EXCEPT !.output_buffer[at] = value,
                                      !.hi = Max(@, at),
                                      !.until_next_marker = dec.val], b)

\* The value `until_next_marker -= 1` decrements in this iteration.
UnDecOf(u, b) == IF u.until_next_marker = 0 THEN b[u.i] ELSE u.until_next_marker

(* ------------------------------ the runs ------------------------------ *)

InitStuff ==
    /\ origin = "stuff"
    /\ marker \in Markers
    /\ buff \in {ToBuf(s) : s \in Inputs(marker)}
    /\ \E OUTPUT \in EncSizes(Size(buff)) : st = StuffInit(OUTPUT, marker)
    /\ pc = "stuff"
    /\ encoded = << >>
    /\ un = UnIdle
    /\ re = StuffInit(0, marker)

InitRaw ==
    /\ origin = "raw"
    /\ marker \in Markers
    /\ buff = << >>
    /\ st = StuffInit(0, marker)
    /\ pc = "encoded"
    /\ encoded \in {ToBuf(s) : s \in SeqsUpTo(ByteVals, MaxRaw)}
    /\ un = UnIdle
    /\ re = StuffInit(0, marker)

Init == InitStuff \/ InitRaw

\* One iteration of stuff's loop.
StuffStep ==
    /\ pc = "stuff"
    /\ st.i < Size(buff)
    /\ st' = StuffIter(st, buff, marker)
    /\ pc' = IF st'.panic # NoPanic THEN "panicked" ELSE "stuff"
    /\ UNCHANGED <<origin, marker, buff, encoded, un, re>>

\* The closing write of stuff and its return.
StuffReturn ==
    /\ pc = "stuff"
    /\ st.i = Size(buff)
    /\ st' = StuffFinal(st, buff)
    /\ IF st'.panic # NoPanic
       THEN pc' = "panicked" /\ encoded' = encoded
       ELSE pc' = "encoded" /\ encoded' = st'.output_buffer
    /\ UNCHANGED <<origin, marker, buff, un, re>>

\* Output sizes unstuff is instantiated with: INPUT - 2, and the length of
\* the original buffer (stuff-produced input) or INPUT (received input).
DecSizes ==
    {n \in {Size(encoded) - 2} : n >= 0}
        \cup (IF origin = "stuff" THEN {Size(buff)} ELSE {Size(encoded)})

\* The call of unstuff up to its loop.
UnstuffBegin ==
    /\ pc = "encoded"
    /\ \E OUTPUT \in DecSizes :
         \E dec \in (IF 0 \in DOMAIN encoded THEN U8Dec(encoded[0])
                     ELSE {[val |-> 0, panic |-> NoPanic]}) :
            un' = UnstuffInit(encoded, OUTPUT, dec)
    /\ pc' = IF un'.panic # NoPanic THEN "panicked" ELSE "unstuff"
    /\ UNCHANGED <<origin, marker, buff, st, encoded, re>>

\* let value = buff[i] past the end of the input: the bounds check fails.
UnstuffReadPast ==
    /\ pc = "unstuff"
    /\ un.i \notin DOMAIN encoded
    /\ un' = [un EXCEPT !.panic = "index"]
    /\ pc' = "panicked"
    /\ UNCHANGED <<origin, marker, buff, st, encoded, re>>

\* if value == marker { break i } ... + 1
UnstuffBreak ==
    /\ pc = "unstuff"
    /\ un.i \in DOMAIN encoded
    /\ encoded[un.i] = marker
    /\ un' = [un EXCEPT !.length = un.i + 1]
    /\ pc' = "decoded"
    /\ UNCHANGED <<origin, marker, buff, st, encoded, re>>

\* Any other iteration of unstuff's loop.
UnstuffStep ==
    /\ pc = "unstuff"
    /\ un.i \in DOMAIN encoded
    /\ encoded[un.i] # marker
    /\ \E dec \in U8Dec(UnDecOf(un, encoded)) :
         un' = UnstuffIter(un, encoded, marker, dec)
    /\ pc' = IF un'.panic # NoPanic THEN "panicked" ELSE "unstuff"
    /\ UNCHANGED <<origin, marker, buff, st, encoded, re>>

\* stuff::<N, M>(unstuff::<M, N>(e, m).0, m): the decoded buffer is encoded
\* again into a buffer of the size of e.
RestuffBegin ==
    /\ pc = "decoded"
    /\ re' = StuffInit(Size(encoded), marker)
    /\ pc' = "restuff"
    /\ UNCHANGED <<origin, marker, buff, st, encoded, un>>

\* One iteration of the second stuff call's loop.
RestuffStep ==
    /\ pc = "restuff"
    /\ re.i < Size(un.output_buffer)
    /\ re' = StuffIter(re, un.output_buffer, marker)
    /\ pc' = IF re'.panic # NoPanic THEN "panicked" ELSE "restuff"
    /\ UNCHANGED <<origin, marker, buff, st, encoded, un>>

\* The closing write of the second stuff call and its return.
RestuffReturn ==
    /\ pc = "restuff"
    /\ re.i = Size(un.output_buffer)
    /\ re' = StuffFinal(re, un.output_buffer)
    /\ pc' = IF re'.panic # NoPanic THEN "panicked" ELSE "restuffed"
    /\ UNCHANGED <<origin, marker, buff, st, encoded, un>>

Next ==
    \/ StuffStep
    \/ StuffReturn
    \/ UnstuffBegin
    \/ UnstuffReadPast
    \/ UnstuffBreak
    \/ UnstuffStep
    \/ RestuffBegin
    \/ RestuffStep
    \/ RestuffReturn

Spec == Init /\ [][Next]_vars

(* ------------------------- derived quantities ------------------------- *)

INPUT == Size(buff)
EncOUTPUT == Size(st.output_buffer)
DecOUTPUT == Size(un.output_buffer)

\* The first stuff call has returned (it did not panic).
StuffReturned == origin = "stuff" /\ pc # "stuff" /\ st.panic = NoPanic

\* The output index of the terminating marker: INPUT + overhead_bytes.
TermPos == INPUT + st.overhead_bytes

\* The frame: index 0 up to and including the terminating marker.
FrameLen == TermPos + 1

\* The returned buffer holds the whole frame, terminator included.
FrameFits == StuffReturned /\ TermPos \in DOMAIN st.output_buffer

\* unstuff has been called on a buffer stuff returned.
UnstuffCalled == StuffReturned /\ pc # "encoded"

\* unstuff has returned.
UnstuffReturned == un.length >= 0

(* ------------------------------- claims -------------------------------- *)

\* C1 (as claimed): round trip. For every buffer and every marker, with stuff's
\* output holding the whole frame and the decoded buffer at least as long as
\* the input, unstuff(stuff(b, m), m) returns a buffer whose first len(b)
\* bytes are b.
C1_RoundTrip ==
    (FrameFits /\ UnstuffReturned /\ DecOUTPUT >= INPUT)
        => \A k \in DOMAIN buff : un.output_buffer[k] = buff[k]

\* C2 (as claimed): no-marker invariant. In the buffer stuff returns, no byte
\* before the terminating marker (no distance byte, no copied byte) equals
\* the marker, and the terminator position holds the marker.
C2_NoMarker ==
    FrameFits
        => /\ st.output_buffer[TermPos] = marker
           /\ \A k \in 0..(TermPos - 1) : st.output_buffer[k] # marker

\* C3 (as claimed): missing terminator. unstuff on a non-empty input of
\* non-zero bytes, none of them equal to the marker, never returns, and when it
\* stops it stops with the "No marker value found!" panic, not on an index
\* outside a buffer.
C3_MissingTerminator ==
    (/\ pc \in {"decoded", "panicked"}
     /\ origin = "raw"
     /\ Size(encoded) >= 1
     /\ \A k \in DOMAIN encoded : encoded[k] \notin {marker, 0})
        => /\ ~UnstuffReturned
           /\ un.panic = "No marker value found!"

\* C4 (as claimed): the length unstuff returns for a frame stuff produced is
\* the filled length of the decoded buffer: the index of the terminating
\* marker minus the overhead bytes consumed.
C4_ReturnedLength ==
    (FrameFits /\ UnstuffReturned) => un.length = un.i - un.overhead_bytes

\* C5 (as claimed): exact overhead. The frame stuff produces has length exactly
\* len(b) + 2 + floor(len(b) / 254), whatever b holds.
C5_ExactOverhead ==
    FrameFits => FrameLen = SizeRule(INPUT)

\* C5 (amended): the frame stuff produces ends in the marker at index
\* FrameLen - 1, and its length is at least len(b) + 2 and at most
\* len(b) + 2 + floor(len(b) / 254).
C5_OverheadBounds ==
    FrameFits
        => /\ st.output_buffer[FrameLen - 1] = marker
           /\ FrameLen >= INPUT + 2
           /\ FrameLen <= SizeRule(INPUT)

\* C5 witness: a buffer of at least 255 bytes whose frame has the largest
\* length, and which needed a forced break.
C5_Witness ==
    /\ FrameFits
    /\ INPUT >= MAXDIST
    /\ st.overhead_bytes >= 2
    /\ FrameLen = SizeRule(INPUT)

\* C6: encoder sizing. When OUTPUT >= INPUT + 2 + floor(INPUT / 254), stuff
\* never fails: no write is past OUTPUT - 1, no distance conversion fails, and
\* the terminator position INPUT + overhead_bytes is inside the buffer.
C6_EncoderSizing ==
    (origin = "stuff" /\ EncOUTPUT >= SizeRule(INPUT))
        => /\ st.panic = NoPanic
           /\ st.hi <= EncOUTPUT - 1
           /\ st.i + st.overhead_bytes <= EncOUTPUT - 1
           /\ pc # "stuff" => TermPos <= EncOUTPUT - 1

\* C6 witness: stuff returned with OUTPUT exactly at the size rule, after a
\* forced break, with the terminator at the last index of the buffer.
C6_Witness ==
    /\ StuffReturned
    /\ EncOUTPUT = SizeRule(INPUT)
    /\ st.overhead_bytes >= 2
    /\ TermPos = EncOUTPUT - 1
    /\ st.hi = EncOUTPUT - 2

C8_InverseStability ==
    (/\ FrameFits
     /\ EncOUTPUT = FrameLen
     /\ DecOUTPUT = INPUT
     /\ pc \in {"restuffed", "panicked"}
     /\ UnstuffReturned)
        => /\ re.panic = NoPanic
           /\ re.output_buffer = encoded

\* C9: decoder sizing. For a buffer stuff returned that holds the whole frame
\* (with or without trailing marker fill), unstuff with OUTPUT >= INPUT - 2
\* never fails and writes only at indices below OUTPUT.
C9_DecoderSizing ==
    (/\ FrameFits
     /\ UnstuffCalled
     /\ DecOUTPUT >= Size(encoded) - 2)
        => /\ un.panic = NoPanic
           /\ un.hi < DecOUTPUT
           /\ un.i \in DOMAIN encoded

\* C9 witness: unstuff returned from a stuff-produced frame of at least 256
\* bytes, with OUTPUT = INPUT - 2 and the last byte of the output written.
C9_Witness ==
    /\ FrameFits
    /\ UnstuffReturned
    /\ DecOUTPUT = Size(encoded) - 2
    /\ DecOUTPUT >= MAXDIST - 1
    /\ un.hi = DecOUTPUT - 1

\* C10: encoder tracker invariant. At every point of a stuff call
\* last_marker.points_to = last_marker.index + 255, and every distance the
\* encoder computes for a distance byte is in 1..255.
C10_Tracker ==
    \A s \in {st, re} :
        /\ s.last_marker.points_to = s.last_marker.index + MAXDIST
        /\ s.dists \subseteq 1..MAXDIST

\* C10 witness: a stuff call that returned after a forced break (distance 255),
\* a removed marker right after it (distance 1) and its closing write.
C10_Witness ==
    /\ StuffReturned
    /\ st.overhead_bytes >= 2
    /\ {1, MAXDIST} \subseteq st.dists
    /\ st.last_marker.index > MAXDIST

====
